---- MODULE Spec2Model ----
(***************************************************************************)
(* Model of src/src/sysmon_event.rs: the Sysmon event identifier           *)
(* (SysmonEventId: FromStr and fmt::Debug) and the event parser            *)
(* SysmonEvent::from_xml.                                                  *)
(*                                                                         *)
(* Text is a sequence of one-character strings, so that numeral parsing    *)
(* and formatting are computed digit by digit.  An XML document is the     *)
(* tree roxmltree hands to from_xml: the immediate children of the root    *)
(* element, each with its own children; a node carries its local tag name, *)
(* its text() and the two attributes the parser reads.                     *)
(***************************************************************************)
EXTENDS Integers, Sequences, FiniteSets

VARIABLES
    xml,              \* from_xml: the input document
    pc,               \* position of the running function
    system_xml,       \* from_xml: index of the located System child (0: none yet)
    event_data_xml,   \* from_xml: index of the located EventData child (0: none yet)
    sys_pos,          \* from_xml: next child of the `for node in system_xml.children()` loop
    data_pos,         \* from_xml: next child of the `for node in event_data_xml.children()` loop
    event_id_opt,     \* from_xml: Option<SysmonEventId>
    time_created_opt, \* from_xml: Option<DateTime<FixedOffset>>
    event_data,       \* from_xml: HashMap<String, String>, a set of <<key, value>> pairs
    result,           \* from_xml: the returned Result<SysmonEvent>
    s,                \* from_str: the input token
    parsed,           \* from_str: the returned Result<SysmonEventId>
    shown             \* fmt: the text written to the formatter

vars == <<xml, pc, system_xml, event_data_xml, sys_pos, data_pos, event_id_opt,
          time_created_opt, event_data, result, s, parsed, shown>>

xmlVars == <<xml, system_xml, event_data_xml, sys_pos, data_pos, event_id_opt,
             time_created_opt, event_data, result>>

idVars == <<s, parsed, shown>>

(***************************************************************************)
(* Bounds of the model.                                                    *)
(***************************************************************************)
MaxTokenLen == 3
MaxNumeral == 300
MaxSystemChildren == 3
MaxDataChildren == 3
MaxSections == 3

(***************************************************************************)
(* Option and Result values.                                               *)
(***************************************************************************)
None == <<>>
Some(v) == <<v>>
IsSome(o) == o # <<>>
Unwrap(o) == o[1]

SeqsUpTo(S, n) == UNION {[1..k -> S] : k \in 0..n}

(***************************************************************************)
(* u8 and SysmonEventId.                                                   *)
(***************************************************************************)
U8Max == 255

Digits == {"0", "1", "2", "3", "4", "5", "6", "7", "8", "9"}

DigitVal(c) ==
    CASE c = "0" -> 0 [] c = "1" -> 1 [] c = "2" -> 2 [] c = "3" -> 3
      [] c = "4" -> 4 [] c = "5" -> 5 [] c = "6" -> 6 [] c = "7" -> 7
      [] c = "8" -> 8 [] c = "9" -> 9

DigitChar(d) ==
    CASE d = 0 -> "0" [] d = 1 -> "1" [] d = 2 -> "2" [] d = 3 -> "3"
      [] d = 4 -> "4" [] d = 5 -> "5" [] d = 6 -> "6" [] d = 7 -> "7"
      [] d = 8 -> "8" [] d = 9 -> "9"

\* n.to_string() of an unsigned integer: its decimal digits, no sign, no padding.
RECURSIVE ToString(_)
ToString(n) ==
    IF n < 10 THEN <<DigitChar(n)>>
    ELSE ToString(n \div 10) \o <<DigitChar(n % 10)>>

\* One step of the digit loop of str::parse::<u8>: checked_mul(10) then checked_add(d).
\* Variant: wrapping arithmetic in place of the checked one.
AccumulateU8Wrapping(acc, d) == [ok |-> TRUE, val |-> (acc * 10 + d) % (U8Max + 1), err |-> ""]
AccumulateU8(acc, d) ==
    IF acc * 10 + d > U8Max
    THEN [ok |-> FALSE, val |-> 0, err |-> "PosOverflow"]
    ELSE [ok |-> TRUE, val |-> acc * 10 + d, err |-> ""]

RECURSIVE ParseDigits(_, _)
ParseDigits(acc, rest) ==
    IF rest = <<>> THEN [ok |-> TRUE, val |-> acc, err |-> ""]
    ELSE IF Head(rest) \notin Digits THEN [ok |-> FALSE, val |-> 0, err |-> "InvalidDigit"]
    ELSE LET r == AccumulateU8(acc, DigitVal(Head(rest)))
         IN  IF r.ok THEN ParseDigits(r.val, Tail(rest)) ELSE r

\* s.parse::<u8>(): an empty token and a lone sign are errors, one leading "+" is
\* skipped, "-" is never accepted by an unsigned type.
ParseU8(str) ==
    IF str = <<>> THEN [ok |-> FALSE, val |-> 0, err |-> "Empty"]
    ELSE IF Len(str) = 1 /\ Head(str) \in {"+", "-"}
         THEN [ok |-> FALSE, val |-> 0, err |-> "InvalidDigit"]
    ELSE IF Head(str) = "+" THEN ParseDigits(0, Tail(str))
    ELSE ParseDigits(0, str)

\* NonZeroU8::new(n): None exactly for 0.
\* Variant: new_unchecked, which takes 0 too.
NonZeroU8NewUnguarded(n) == Some(n)
NonZeroU8New(n) == IF n = 0 THEN None ELSE Some(n)

\* impl FromStr for SysmonEventId.  The `?` returns the ParseIntError; a zero
\* becomes the error carrying the context "Invalid EventID".
FromStr(str) ==
    LET n == ParseU8(str) IN
    IF ~n.ok THEN [ok |-> FALSE, val |-> 0, err |-> "ParseIntError", kind |-> n.err]
    ELSE IF IsSome(NonZeroU8New(n.val))
         THEN [ok |-> TRUE, val |-> Unwrap(NonZeroU8New(n.val)), err |-> "", kind |-> ""]
         ELSE [ok |-> FALSE, val |-> 0, err |-> "Invalid EventID", kind |-> ""]

\* The match of impl fmt::Debug for SysmonEventId over the named constants.
\* Variant: code 4 taken for a named code, the later names lost.
EventNameShifted(code) ==
    CASE code = 1 -> "Process Create"
      [] code = 2 -> "File creation time changed"
      [] code = 3 -> "Network connection detected"
      [] code = 4 -> "Process terminated"
      [] code = 5 -> "Driver loaded"
      [] OTHER -> "Unknown event"
EventName(code) ==
    CASE code = 1 -> "Process Create"
      [] code = 2 -> "File creation time changed"
      [] code = 3 -> "Network connection detected"
      [] code = 5 -> "Process terminated"
      [] code = 6 -> "Driver loaded"
      [] code = 7 -> "Image loaded"
      [] code = 8 -> "CreateRemoteThread detected"
      [] code = 9 -> "RawAccessRead detected"
      [] code = 10 -> "Process accessed"
      [] code = 11 -> "File created"
      [] code = 12 -> "Registry object added or deleted"
      [] code = 13 -> "Registry value set"
      [] code = 14 -> "Registry object renamed"
      [] code = 15 -> "File stream created"
      [] code = 17 -> "Pipe Created"
      [] code = 18 -> "Pipe Connected"
      [] code = 19 -> "WmiEventFilter activity detected"
      [] code = 20 -> "WmiEventConsumer activity detected"
      [] code = 21 -> "WmiEventConsumerToFilter activity detected"
      [] code = 22 -> "Dns query"
      [] code = 23 -> "File Delete archived"
      [] code = 24 -> "Clipboard changed"
      [] code = 25 -> "Process Tampering"
      [] code = 26 -> "File Delete logged"
      [] OTHER -> "Unknown event"

\* write!(f, "{} {}", u8::from(self.0), event_name): the numeral, one space, the name.
Fmt(code) == ToString(code) \o <<" ", EventName(code)>>

(***************************************************************************)
(* Inputs of from_str: every token over a small alphabet, and the decimal  *)
(* rendering of every number up to MaxNumeral.                             *)
(***************************************************************************)
Alphabet == {"0", "1", "2", "5", "6", "+", "-", "a"}

Tokens ==
    SeqsUpTo(Alphabet, MaxTokenLen) \cup {ToString(n) : n \in 0..MaxNumeral}
    \cup {<<"a", "b", "c">>}

NotRun == [ok |-> FALSE, val |-> 0, err |-> "not run", kind |-> ""]

(***************************************************************************)
(* chrono's DateTime::parse_from_rfc3339 on the SystemTime values of the   *)
(* model: the parsed value keeps the local date-time and the offset.       *)
(***************************************************************************)
Time1 == "2023-01-01T12:00:00+00:00"
Time2 == "2024-06-30T08:30:00+02:00"
BadTime == "2023-01-01 12:00"

ParseFromRfc3339(str) ==
    CASE str = Time1 -> Some([local |-> "2023-01-01T12:00:00", offset |-> "+00:00"])
      [] str = Time2 -> Some([local |-> "2024-06-30T08:30:00", offset |-> "+02:00"])
      [] OTHER -> None

(***************************************************************************)
(* Documents.  A node is what from_xml reads of a roxmltree node: its      *)
(* tag_name().name(), its text() and its attributes SystemTime and Name,   *)
(* each an Option.  "Computer" and "Binary" stand for every child with     *)
(* another name (text and comment nodes included: their name is empty).    *)
(***************************************************************************)
Node(name, text, systemTime, nameAttr) ==
    [name |-> name, text |-> text, SystemTime |-> systemTime, Name |-> nameAttr]

IdTexts == {<<"3">>, <<"7">>, <<"0">>, <<"a", "b", "c">>}

SystemNodes ==
    {Node("EventID", t, None, None) : t \in {None} \cup {Some(x) : x \in IdTexts}}
    \cup {Node("TimeCreated", None, a, None) :
            a \in {None, Some(Time1), Some(Time2), Some(BadTime)}}
    \cup {Node("Computer", None, None, None)}

DataNodes ==
    {Node("Data", t, None, n) :
        t \in {None, Some(<<"a">>), Some(<<"b">>)}, n \in {None, Some("X"), Some("Y")}}
    \cup {Node("Binary", None, None, None)}

Section(name, children) == [name |-> name, children |-> children]

Document(root) == [wf |-> TRUE, root |-> root]
Malformed == [wf |-> FALSE, root |-> <<>>]

GoodId == Node("EventID", Some(<<"3">>), None, None)
GoodTime == Node("TimeCreated", None, Some(Time1), None)

\* The System sections used where the document's layout or its EventData is varied.
SampleSystems ==
    << <<GoodId, GoodTime>>,
       <<Node("TimeCreated", None, Some(Time2), None), Node("EventID", Some(<<"7">>), None, None)>>,
       <<Node("EventID", Some(<<"a", "b", "c">>), None, None), GoodTime>>,
       <<GoodId, Node("Computer", None, None, None)>>,
       <<Node("EventID", None, None, None), GoodTime>>,
       <<>> >>

\* The EventData sections used where the document's layout is varied.
SampleEventData ==
    << <<>>,
       <<Node("Data", Some(<<"a">>), None, Some("X"))>>,
       <<Node("Data", Some(<<"b">>), None, Some("Y")), Node("Data", Some(<<"b">>), None, Some("X"))>>,
       <<Node("Data", Some(<<"a">>), None, None)>>,
       <<Node("Data", None, None, Some("X"))>>,
       <<Node("Binary", None, None, None)>> >>

SectionNames == {"System", "EventData", "RenderingInfo"}

\* The root children named as in `layout`, every System section holding `system`
\* and every EventData section `eventData`.
Root(layout, system, eventData) ==
    [i \in 1..Len(layout) |->
        Section(layout[i],
                CASE layout[i] = "System" -> system
                  [] layout[i] = "EventData" -> eventData
                  [] OTHER -> <<>>)]

\* The root children named as in `layout`, the i-th holding the sample pick[i].
SampledRoot(layout, pick) ==
    [i \in 1..Len(layout) |->
        Section(layout[i],
                CASE layout[i] = "System" -> SampleSystems[pick[i]]
                  [] layout[i] = "EventData" -> SampleEventData[pick[i]]
                  [] OTHER -> <<>>)]

SystemLayouts == {<<"System", "EventData">>, <<"System">>}
DataLayouts == {<<"System", "EventData">>, <<"EventData">>}

\* Documents of the expected shape, with every System section of the bound.
IsSystemDocument(doc) ==
    \E l \in SystemLayouts :
    \E system \in SeqsUpTo(SystemNodes, MaxSystemChildren) :
    \E k \in 1..Len(SampleEventData) :
        doc = Document(Root(l, system, SampleEventData[k]))

\* Documents of the expected shape, with every EventData section of the bound.
IsDataDocument(doc) ==
    \E l \in DataLayouts :
    \E k \in 1..Len(SampleSystems) :
    \E eventData \in SeqsUpTo(DataNodes, MaxDataChildren) :
        doc = Document(Root(l, SampleSystems[k], eventData))

\* Documents with any sections in any order, repeated sections included.
IsSectionDocument(doc) ==
    \E l \in SeqsUpTo(SectionNames, MaxSections) :
    \E pick \in [1..Len(l) -> 1..Len(SampleSystems)] :
        /\ \A i \in 1..Len(l) : l[i] = "RenderingInfo" => pick[i] = 1
        /\ doc = Document(SampledRoot(l, pick))

(***************************************************************************)
(* SysmonEvent::from_xml, one action per statement and per loop iteration. *)
(***************************************************************************)
Running == [tag |-> "Running", msg |-> "", event |-> <<>>]
Err(msg) == [tag |-> "Err", msg |-> msg, event |-> <<>>]
Ok(event) == [tag |-> "Ok", msg |-> "", event |-> <<event>>]

Fail(msg) ==
    /\ result' = Err(msg)
    /\ pc' = "done"

\* children().filter(|n| n.tag_name().name() == name).nth(0): the index of the
\* first child of that name, 0 for None.
\* Variant: the last child of that name.
FirstNamedLast(children, name) ==
    IF \E i \in 1..Len(children) : children[i].name = name
    THEN CHOOSE i \in 1..Len(children) :
            /\ children[i].name = name
            /\ \A j \in (i + 1)..Len(children) : children[j].name # name
    ELSE 0
FirstNamed(children, name) ==
    IF \E i \in 1..Len(children) : children[i].name = name
    THEN CHOOSE i \in 1..Len(children) :
            /\ children[i].name = name
            /\ \A j \in 1..(i - 1) : children[j].name # name
    ELSE 0

\* HashMap::insert: the entry of the key is replaced.
\* Variant: entry(key).or_insert(value), which keeps the first value.
InsertKeepFirst(map, key, value) ==
    IF \E e \in map : e[1] = key THEN map ELSE map \cup {<<key, value>>}
Insert(map, key, value) == {e \in map : e[1] # key} \cup {<<key, value>>}

SystemChildren == xml.root[system_xml].children
EventDataChildren == xml.root[event_data_xml].children

\* let event = Document::parse(xml)?;
ParseDocument ==
    /\ pc = "parse"
    /\ IF xml.wf
       THEN /\ pc' = "locate_system"
            /\ UNCHANGED result
       ELSE Fail("roxmltree::Error")
    /\ UNCHANGED <<xml, system_xml, event_data_xml, sys_pos, data_pos, event_id_opt,
                   time_created_opt, event_data, idVars>>

\* let system_xml = ... .nth(0).context("No System node")?;
LocateSystem ==
    /\ pc = "locate_system"
    /\ LET i == FirstNamed(xml.root, "System") IN
       IF i # 0
       THEN /\ system_xml' = i
            /\ pc' = "locate_event_data"
            /\ UNCHANGED result
       ELSE /\ Fail("No System node")
            /\ UNCHANGED system_xml
    /\ UNCHANGED <<xml, event_data_xml, sys_pos, data_pos, event_id_opt,
                   time_created_opt, event_data, idVars>>

\* let event_data_xml = ... .nth(0).context("No EventData node")?;
\* Variant: the context of the System lookup repeated.
LocateEventDataWrongContext ==
    /\ pc = "locate_event_data"
    /\ LET i == FirstNamed(xml.root, "EventData") IN
       IF i # 0
       THEN /\ event_data_xml' = i
            /\ pc' = "scan_system"
            /\ UNCHANGED result
       ELSE /\ Fail("No System node")
            /\ UNCHANGED event_data_xml
    /\ UNCHANGED <<xml, system_xml, sys_pos, data_pos, event_id_opt,
                   time_created_opt, event_data, idVars>>
LocateEventData ==
    /\ pc = "locate_event_data"
    /\ LET i == FirstNamed(xml.root, "EventData") IN
       IF i # 0
       THEN /\ event_data_xml' = i
            /\ pc' = "scan_system"
            /\ UNCHANGED result
       ELSE /\ Fail("No EventData node")
            /\ UNCHANGED event_data_xml
    /\ UNCHANGED <<xml, system_xml, sys_pos, data_pos, event_id_opt,
                   time_created_opt, event_data, idVars>>

\* The value assigned to event_id_opt: node.text()...parse::<SysmonEventId>().ok()
ParsedEventId(text) ==
    IF FromStr(text).ok THEN Some(FromStr(text).val) ELSE None

\* The value assigned to time_created_opt: DateTime::parse_from_rfc3339(...).ok()
ParsedTimeCreated(attr) == ParseFromRfc3339(attr)

\* for node in system_xml.children(), the arm "EventID"
\* Variant: the identity parse error returned with `?` in place of .ok().
ScanEventIDStrict ==
    /\ pc = "scan_system"
    /\ sys_pos <= Len(SystemChildren)
    /\ LET node == SystemChildren[sys_pos] IN
       /\ node.name = "EventID"
       /\ IF ~IsSome(node.text)
          THEN /\ Fail("EventID is empty")
               /\ UNCHANGED <<event_id_opt, sys_pos>>
          ELSE IF ~FromStr(Unwrap(node.text)).ok
          THEN /\ Fail(FromStr(Unwrap(node.text)).err)
               /\ UNCHANGED <<event_id_opt, sys_pos>>
          ELSE /\ event_id_opt' = Some(FromStr(Unwrap(node.text)).val)
               /\ sys_pos' = sys_pos + 1
               /\ UNCHANGED <<pc, result>>
    /\ UNCHANGED <<xml, system_xml, event_data_xml, data_pos, time_created_opt,
                   event_data, idVars>>
ScanEventID ==
    /\ pc = "scan_system"
    /\ sys_pos <= Len(SystemChildren)
    /\ LET node == SystemChildren[sys_pos] IN
       /\ node.name = "EventID"
       /\ IF IsSome(node.text)
          THEN /\ event_id_opt' = ParsedEventId(Unwrap(node.text))
               /\ sys_pos' = sys_pos + 1
               /\ UNCHANGED <<pc, result>>
          ELSE /\ Fail("EventID is empty")
               /\ UNCHANGED <<event_id_opt, sys_pos>>
    /\ UNCHANGED <<xml, system_xml, event_data_xml, data_pos, time_created_opt,
                   event_data, idVars>>

\* for node in system_xml.children(), the arm "TimeCreated"
ScanTimeCreated ==
    /\ pc = "scan_system"
    /\ sys_pos <= Len(SystemChildren)
    /\ LET node == SystemChildren[sys_pos] IN
       /\ node.name = "TimeCreated"
       /\ IF IsSome(node.SystemTime)
          THEN /\ time_created_opt' = ParsedTimeCreated(Unwrap(node.SystemTime))
               /\ sys_pos' = sys_pos + 1
               /\ UNCHANGED <<pc, result>>
          ELSE /\ Fail("TimeCreated has no SystemTime attribute")
               /\ UNCHANGED <<time_created_opt, sys_pos>>
    /\ UNCHANGED <<xml, system_xml, event_data_xml, data_pos, event_id_opt,
                   event_data, idVars>>

\* for node in system_xml.children(), the arm `_ => ()`
ScanOther ==
    /\ pc = "scan_system"
    /\ sys_pos <= Len(SystemChildren)
    /\ SystemChildren[sys_pos].name \notin {"EventID", "TimeCreated"}
    /\ sys_pos' = sys_pos + 1
    /\ UNCHANGED <<xml, pc, system_xml, event_data_xml, data_pos, event_id_opt,
                   time_created_opt, event_data, result, idVars>>

\* the System loop ends
EndSystemScan ==
    /\ pc = "scan_system"
    /\ sys_pos > Len(SystemChildren)
    /\ pc' = "require_event_id"
    /\ UNCHANGED <<xmlVars, idVars>>

\* let event_id = event_id_opt.context("No EventID")?;
\* Variant: the timestamp required before the identity.
RequireEventIdTimeFirst ==
    /\ pc = "require_event_id"
    /\ IF ~IsSome(time_created_opt) THEN Fail("No TimeCreated")
       ELSE IF IsSome(event_id_opt)
       THEN /\ pc' = "require_time_created"
            /\ UNCHANGED result
       ELSE Fail("No EventID")
    /\ UNCHANGED <<xml, system_xml, event_data_xml, sys_pos, data_pos, event_id_opt,
                   time_created_opt, event_data, idVars>>
RequireEventId ==
    /\ pc = "require_event_id"
    /\ IF IsSome(event_id_opt)
       THEN /\ pc' = "require_time_created"
            /\ UNCHANGED result
       ELSE Fail("No EventID")
    /\ UNCHANGED <<xml, system_xml, event_data_xml, sys_pos, data_pos, event_id_opt,
                   time_created_opt, event_data, idVars>>

\* let time_created = time_created_opt.context("No TimeCreated")?;
RequireTimeCreated ==
    /\ pc = "require_time_created"
    /\ IF IsSome(time_created_opt)
       THEN /\ pc' = "scan_data"
            /\ UNCHANGED result
       ELSE Fail("No TimeCreated")
    /\ UNCHANGED <<xml, system_xml, event_data_xml, sys_pos, data_pos, event_id_opt,
                   time_created_opt, event_data, idVars>>

\* for node in event_data_xml.children(), a node named "Data": the Name attribute
\* is read before the text.
\* Variant: a missing text stored as the empty string.
ScanDataEmptyText ==
    /\ pc = "scan_data"
    /\ data_pos <= Len(EventDataChildren)
    /\ LET node == EventDataChildren[data_pos] IN
       /\ node.name = "Data"
       /\ IF ~IsSome(node.Name)
          THEN /\ Fail("EventData/Data has no Name attribute")
               /\ UNCHANGED <<event_data, data_pos>>
          ELSE /\ event_data' = Insert(event_data, Unwrap(node.Name),
                                       IF IsSome(node.text) THEN Unwrap(node.text) ELSE <<>>)
               /\ data_pos' = data_pos + 1
               /\ UNCHANGED <<pc, result>>
    /\ UNCHANGED <<xml, system_xml, event_data_xml, sys_pos, event_id_opt,
                   time_created_opt, idVars>>
ScanData ==
    /\ pc = "scan_data"
    /\ data_pos <= Len(EventDataChildren)
    /\ LET node == EventDataChildren[data_pos] IN
       /\ node.name = "Data"
       /\ IF ~IsSome(node.Name)
          THEN /\ Fail("EventData/Data has no Name attribute")
               /\ UNCHANGED <<event_data, data_pos>>
          ELSE IF ~IsSome(node.text)
          THEN /\ Fail("EventData/Data has no text")
               /\ UNCHANGED <<event_data, data_pos>>
          ELSE /\ event_data' = Insert(event_data, Unwrap(node.Name), Unwrap(node.text))
               /\ data_pos' = data_pos + 1
               /\ UNCHANGED <<pc, result>>
    /\ UNCHANGED <<xml, system_xml, event_data_xml, sys_pos, event_id_opt,
                   time_created_opt, idVars>>

\* for node in event_data_xml.children(), a node not named "Data"
SkipData ==
    /\ pc = "scan_data"
    /\ data_pos <= Len(EventDataChildren)
    /\ EventDataChildren[data_pos].name # "Data"
    /\ data_pos' = data_pos + 1
    /\ UNCHANGED <<xml, pc, system_xml, event_data_xml, sys_pos, event_id_opt,
                   time_created_opt, event_data, result, idVars>>

\* Ok(SysmonEvent { event_id, time_created, event_data })
Return ==
    /\ pc = "scan_data"
    /\ data_pos > Len(EventDataChildren)
    /\ result' = Ok([event_id |-> Unwrap(event_id_opt),
                     time_created |-> Unwrap(time_created_opt),
                     event_data |-> event_data])
    /\ pc' = "done"
    /\ UNCHANGED <<xml, system_xml, event_data_xml, sys_pos, data_pos, event_id_opt,
                   time_created_opt, event_data, idVars>>

Init ==
    /\ \/ xml = Malformed
       \/ IsSystemDocument(xml)
       \/ IsDataDocument(xml)
       \/ IsSectionDocument(xml)
    /\ pc = "parse"
    /\ system_xml = 0
    /\ event_data_xml = 0
    /\ sys_pos = 1
    /\ data_pos = 1
    /\ event_id_opt = None
    /\ time_created_opt = None
    /\ event_data = {}
    /\ result = Running
    /\ s = <<>>
    /\ parsed = NotRun
    /\ shown = <<>>

Next ==
    \/ ParseDocument
    \/ LocateSystem
    \/ LocateEventData
    \/ ScanEventID
    \/ ScanTimeCreated
    \/ ScanOther
    \/ EndSystemScan
    \/ RequireEventId
    \/ RequireTimeCreated
    \/ ScanData
    \/ SkipData
    \/ Return

Spec == Init /\ [][Next]_vars

(***************************************************************************)
(* SysmonEventId::from_str and its Debug rendering, applied to a token.    *)
(***************************************************************************)
\* "...".parse::<SysmonEventId>()
CallFromStr ==
    /\ pc = "from_str"
    /\ parsed' = FromStr(s)
    /\ pc' = IF FromStr(s).ok THEN "fmt" ELSE "id_done"
    /\ UNCHANGED <<xmlVars, s, shown>>

\* format!("{:?}", id)
CallFmt ==
    /\ pc = "fmt"
    /\ shown' = Fmt(parsed.val)
    /\ pc' = "id_done"
    /\ UNCHANGED <<xmlVars, s, parsed>>

InitId ==
    /\ s \in Tokens
    /\ pc = "from_str"
    /\ parsed = NotRun
    /\ shown = <<>>
    /\ xml = Malformed
    /\ system_xml = 0
    /\ event_data_xml = 0
    /\ sys_pos = 1
    /\ data_pos = 1
    /\ event_id_opt = None
    /\ time_created_opt = None
    /\ event_data = {}
    /\ result = Running

NextId ==
    \/ CallFromStr
    \/ CallFmt

SpecId == InitId /\ [][NextId]_vars

(***************************************************************************)
(* Vocabulary of the properties.  The error kinds of the specification are *)
(* the failures of the code: each kind is the anyhow context (or the       *)
(* library error) the code returns at that place.                          *)
(***************************************************************************)
MalformedDocument == "roxmltree::Error"
MissingSectionSystem == "No System node"
MissingSectionEventData == "No EventData node"
MissingFieldEventIDText == "EventID is empty"
MissingAttributeSystemTime == "TimeCreated has no SystemTime attribute"
MissingFieldEventID == "No EventID"
MissingFieldTimeCreated == "No TimeCreated"
MissingAttributeName == "EventData/Data has no Name attribute"
MissingFieldDataText == "EventData/Data has no text"
NotANumber == "ParseIntError"
ZeroNotAllowed == "Invalid EventID"

Done == pc = "done"

Indices(children, name) == {i \in 1..Len(children) : children[i].name = name}
MinOf(I) == CHOOSE i \in I : \A j \in I : i <= j
MaxOf(I) == CHOOSE i \in I : \A j \in I : j <= i

HasSection(name) == Indices(xml.root, name) # {}
\* The children of the first root child of that name, in document order.
FirstSection(name) == xml.root[MinOf(Indices(xml.root, name))].children
BothSections == xml.wf /\ HasSection("System") /\ HasSection("EventData")

\* A System child that stops the parse: an EventID without text, a TimeCreated
\* without a SystemTime attribute.
IsHard(n) ==
    \/ n.name = "EventID" /\ n.text = None
    \/ n.name = "TimeCreated" /\ n.SystemTime = None
HardError(n) ==
    IF n.name = "EventID" THEN MissingFieldEventIDText ELSE MissingAttributeSystemTime
HardIndices(sys) == {i \in 1..Len(sys) : IsHard(sys[i])}

\* A Data child that stops the parse, and the error it stops it with.
IsBadData(n) == n.name = "Data" /\ (n.Name = None \/ n.text = None)
DataError(n) == IF n.Name = None THEN MissingAttributeName ELSE MissingFieldDataText
BadDataIndices(data) == {i \in 1..Len(data) : IsBadData(data[i])}

\* The EventID children whose text is a valid identity, the TimeCreated children
\* whose SystemTime is a valid timestamp.
ValidIds(sys) ==
    {i \in Indices(sys, "EventID") : sys[i].text # None /\ FromStr(Unwrap(sys[i].text)).ok}
ValidTimes(sys) ==
    {i \in Indices(sys, "TimeCreated") :
        sys[i].SystemTime # None /\ ParseFromRfc3339(Unwrap(sys[i].SystemTime)) # None}

IdAt(sys, i) == FromStr(Unwrap(sys[i].text)).val
TimeAt(sys, i) == Unwrap(ParseFromRfc3339(Unwrap(sys[i].SystemTime)))

\* The value of a decimal numeral, digit by position.
RECURSIVE Pow10(_)
Pow10(k) == IF k = 0 THEN 1 ELSE 10 * Pow10(k - 1)
RECURSIVE NumeralValue(_)
NumeralValue(ds) ==
    IF ds = <<>> THEN 0
    ELSE DigitVal(Head(ds)) * Pow10(Len(ds) - 1) + NumeralValue(Tail(ds))

Unsigned(str) == IF str # <<>> /\ Head(str) = "+" THEN Tail(str) ELSE str
\* A token that denotes an unsigned 8-bit integer in decimal: digits only, after
\* at most one leading "+", of a value up to 255.
IsU8Numeral(str) ==
    /\ Unsigned(str) # <<>>
    /\ \A i \in 1..Len(Unsigned(str)) : Unsigned(str)[i] \in Digits
    /\ NumeralValue(Unsigned(str)) <= 255

NamedCodes == {1, 2, 3} \cup (5..15) \cup (17..26)

(***************************************************************************)
(* Properties of SysmonEventId (specification SpecId).                     *)
(***************************************************************************)
Parsed == pc \in {"fmt", "id_done"}

\* C3: from_str classifies every token three ways.  A token that is not an
\* unsigned 8-bit decimal numeral (what u8 parsing accepts: digits after at most
\* one leading "+", value up to 255) fails with NotANumber; a numeral of value 0
\* fails with ZeroNotAllowed, a different failure; every other numeral succeeds
\* with exactly its value as the code, so the decimal rendering of every code of
\* 1..255 parses back to that code.
C3_FromStrClassifies ==
    Parsed =>
        /\ ~IsU8Numeral(s) => ~parsed.ok /\ parsed.err = NotANumber
        /\ IsU8Numeral(s) /\ NumeralValue(Unsigned(s)) = 0 =>
              ~parsed.ok /\ parsed.err = ZeroNotAllowed /\ parsed.err # NotANumber
        /\ IsU8Numeral(s) /\ NumeralValue(Unsigned(s)) # 0 =>
              parsed.ok /\ parsed.val = NumeralValue(Unsigned(s)) /\ parsed.val \in 1..255
        /\ \A c \in 1..255 : s = ToString(c) => parsed.ok /\ parsed.val = c
        /\ s \in {<<"2", "5", "6">>, <<"-", "1">>, <<"a", "b", "c">>} =>
              ~parsed.ok /\ parsed.err = NotANumber

\* C3 witness: the largest code parses from its rendering.
C3_Witness ==
    /\ Parsed
    /\ s = <<"2", "5", "5">>
    /\ parsed.ok
    /\ parsed.val = 255

\* The rendering of a code: its decimal numeral without padding, one space, a label.
RenderedAs(text, code, label) ==
    /\ Len(text) >= 3
    /\ text[Len(text)] = label
    /\ text[Len(text) - 1] = " "
    /\ LET numeral == SubSeq(text, 1, Len(text) - 2) IN
       /\ \A i \in 1..Len(numeral) : numeral[i] \in Digits
       /\ numeral[1] # "0"
       /\ NumeralValue(numeral) = code

\* C4: rendering is total over the identities: every code of 1..255 renders as
\* "<code> <label>" with a non-empty label, the label being the name of the code
\* for the 24 named codes and "Unknown event" for every other code.
C4_RenderingTotal ==
    pc = "id_done" /\ parsed.ok =>
        /\ parsed.val \in 1..255
        /\ \E label \in {shown[Len(shown)]} :
              /\ RenderedAs(shown, parsed.val, label)
              /\ label # ""
              /\ parsed.val \in NamedCodes => label # "Unknown event"
              /\ parsed.val \notin NamedCodes => label = "Unknown event"
              /\ parsed.val = 1 => label = "Process Create"
              /\ parsed.val = 3 => label = "Network connection detected"
              /\ parsed.val = 5 => label = "Process terminated"
              /\ parsed.val = 26 => label = "File Delete logged"

\* C4 witness: code 200, not a named code, renders as "200 Unknown event".
C4_Witness ==
    /\ pc = "id_done"
    /\ parsed.ok
    /\ parsed.val = 200
    /\ shown = <<"2", "0", "0", " ", "Unknown event">>

(***************************************************************************)
(* Properties of SysmonEvent::from_xml (specification Spec).               *)
(***************************************************************************)
Failed(msg) == result.tag = "Err" /\ result.msg = msg
Returned == result.tag = "Ok"
Event == Unwrap(result.event)

\* Nothing of either section has been read.
NothingScanned ==
    /\ sys_pos = 1
    /\ data_pos = 1
    /\ event_id_opt = None
    /\ time_created_opt = None
    /\ event_data = {}

\* C1: with every EventID child carrying text and every TimeCreated child a
\* SystemTime attribute, an item with at least one valid occurrence is not
\* reported missing, and the returned identity (timestamp) is that of the last
\* valid occurrence in document order, whatever invalid occurrences surround it.
C1_LastParsedWins ==
    Done /\ BothSections /\ HardIndices(FirstSection("System")) = {} =>
        LET sys == FirstSection("System") IN
        /\ ValidIds(sys) # {} =>
              /\ ~Failed(MissingFieldEventID)
              /\ Returned => Event.event_id = IdAt(sys, MaxOf(ValidIds(sys)))
        /\ ValidTimes(sys) # {} =>
              /\ ~Failed(MissingFieldTimeCreated)
              /\ Returned => Event.time_created = TimeAt(sys, MaxOf(ValidTimes(sys)))

\* C2: a record is returned only by a parse in which nothing failed: the document
\* is well formed, both sections exist, no System child and no Data child stops
\* the parse, the identity is a code of 1..255 read from an EventID child and the
\* timestamp is the parsed SystemTime of a TimeCreated child; a failure carries
\* no record, and a result exists only once the function has returned.
C2_ConstructionAtomic ==
    /\ result.tag \in {"Running", "Ok", "Err"}
    /\ result.tag # "Running" <=> Done
    /\ result.tag = "Err" => result.event = None
    /\ Returned =>
          /\ BothSections
          /\ HardIndices(FirstSection("System")) = {}
          /\ BadDataIndices(FirstSection("EventData")) = {}
          /\ IsSome(event_id_opt) /\ IsSome(time_created_opt)
          /\ Event.event_id = Unwrap(event_id_opt)
          /\ Event.time_created = Unwrap(time_created_opt)
          /\ Event.event_id \in 1..255
          /\ \E i \in ValidIds(FirstSection("System")) :
                Event.event_id = IdAt(FirstSection("System"), i)
          /\ \E i \in ValidTimes(FirstSection("System")) :
                Event.time_created = TimeAt(FirstSection("System"), i)

\* C2 witness: a record is returned.
C2_Witness ==
    /\ Done
    /\ Returned
    /\ Event.event_id = 7
    /\ Event.time_created.offset = "+02:00"

\* C5: a well-formed document without a System child fails with
\* MissingSection("System"), one with a System child and no EventData child with
\* MissingSection("EventData"), whatever the section that is present holds;
\* neither section is read before both have been located.
C5_MissingSection ==
    /\ Done /\ xml.wf /\ ~HasSection("System") =>
          Failed(MissingSectionSystem) /\ NothingScanned
    /\ Done /\ xml.wf /\ HasSection("System") /\ ~HasSection("EventData") =>
          Failed(MissingSectionEventData) /\ NothingScanned
    /\ ~NothingScanned \/ pc \in {"scan_system", "require_event_id",
                                  "require_time_created", "scan_data"} =>
          system_xml # 0 /\ event_data_xml # 0

\* C5 witness: a System section that would stop the parse, and no EventData.
C5_Witness ==
    /\ Done
    /\ xml.wf
    /\ HasSection("System")
    /\ ~HasSection("EventData")
    /\ HardIndices(FirstSection("System")) # {}
    /\ Failed(MissingSectionEventData)

\* The Data children of an EventData section, and the last of them of each Name.
DataIndices(data) == Indices(data, "Data")
LastNamed(data, i) ==
    \A j \in DataIndices(data) : j > i => data[j].Name # data[i].Name

\* C6: the returned fields hold one entry for each distinct Name among the Data
\* children, mapped to the text of the last Data child of that Name; children of
\* another name add no entry and cause no failure.
C6_LastWriteWins ==
    Returned =>
        LET data == FirstSection("EventData")
            names == {Unwrap(data[i].Name) : i \in DataIndices(data)}
        IN
        /\ Event.event_data =
              {<<Unwrap(data[i].Name), Unwrap(data[i].text)>> :
                  i \in {k \in DataIndices(data) : LastNamed(data, k)}}
        /\ {e[1] : e \in Event.event_data} = names
        /\ Cardinality(Event.event_data) = Cardinality(names)

\* C6 witness: two Data children named X with different text and a child not
\* named Data; the record holds the later text.
C6_Witness ==
    /\ Returned
    /\ LET data == FirstSection("EventData") IN
       /\ Len(data) = 3
       /\ data[1].name = "Data" /\ data[1].Name = Some("X") /\ data[1].text = Some(<<"a">>)
       /\ data[2].name = "Binary"
       /\ data[3].name = "Data" /\ data[3].Name = Some("X") /\ data[3].text = Some(<<"b">>)
    /\ Event.event_data = {<<"X", <<"b">>>>}

\* The data scan was reached: both sections exist, no System child stopped the
\* parse, identity and timestamp are set.
DataScanReached ==
    /\ BothSections
    /\ HardIndices(FirstSection("System")) = {}
    /\ IsSome(event_id_opt)
    /\ IsSome(time_created_opt)

\* C7: once the data scan is reached, a Data child without a Name attribute
\* fails the parse with MissingAttribute("Name") and a Data child without text
\* with MissingField("Data text") (the first such child in document order
\* decides, its Name being read before its text); no record is returned, and no
\* returned field holds an empty text in place of a missing one.
C7_DataChildErrors ==
    /\ Done /\ DataScanReached /\ BadDataIndices(FirstSection("EventData")) # {} =>
          LET data == FirstSection("EventData")
              first == data[MinOf(BadDataIndices(data))]
          IN
          /\ result.tag = "Err"
          /\ result.event = None
          /\ first.Name = None => Failed(MissingAttributeName)
          /\ first.Name # None => Failed(MissingFieldDataText)
    /\ Returned =>
          /\ \A i \in DataIndices(FirstSection("EventData")) :
                IsSome(FirstSection("EventData")[i].Name)
                /\ IsSome(FirstSection("EventData")[i].text)
          /\ \A e \in Event.event_data : e[2] # <<>>

\* C7 witness: a valid field, then a Data child without text: the parse fails
\* after the first field was stored.
C7_Witness ==
    /\ Done
    /\ DataScanReached
    /\ event_data # {}
    /\ Failed(MissingFieldDataText)

\* C8: an EventID child with invalid text and a TimeCreated child with an
\* invalid SystemTime do not stop the System scan: when no child stops it, every
\* child is scanned, and an identity left unset fails with MissingField("EventID"),
\* a timestamp left unset (the identity being set, which is required first) with
\* MissingField("TimeCreated"); no failure reports the invalid value itself.
C8_SoftFail ==
    /\ BothSections /\ HardIndices(FirstSection("System")) = {}
       /\ pc \in {"require_event_id", "require_time_created", "scan_data", "done"} =>
          LET sys == FirstSection("System") IN
          /\ sys_pos = Len(sys) + 1
          /\ Done /\ ValidIds(sys) = {} => Failed(MissingFieldEventID)
          /\ Done /\ ValidTimes(sys) = {} =>
                Failed(MissingFieldEventID) \/ Failed(MissingFieldTimeCreated)
          /\ Done /\ ValidTimes(sys) = {} /\ IsSome(event_id_opt) =>
                Failed(MissingFieldTimeCreated)
    /\ result.tag = "Err" => result.msg \notin {NotANumber, ZeroNotAllowed}

\* C8 witness: the only EventID child is malformed, a valid TimeCreated follows
\* it and is scanned; the parse fails with MissingField("EventID").
C8_Witness ==
    /\ Done
    /\ BothSections
    /\ LET sys == FirstSection("System") IN
       /\ Len(sys) = 2
       /\ sys[1].name = "EventID" /\ sys[1].text = Some(<<"a", "b", "c">>)
       /\ sys[2].name = "TimeCreated"
    /\ IsSome(time_created_opt)
    /\ Failed(MissingFieldEventID)

\* The result of the parse of a well-formed document as its first System section
\* and its first EventData section determine it.
IdOf(sys) ==
    IF Indices(sys, "EventID") = {} THEN None
    ELSE LET r == FromStr(Unwrap(sys[MaxOf(Indices(sys, "EventID"))].text))
         IN  IF r.ok THEN Some(r.val) ELSE None
TimeOf(sys) ==
    IF Indices(sys, "TimeCreated") = {} THEN None
    ELSE ParseFromRfc3339(Unwrap(sys[MaxOf(Indices(sys, "TimeCreated"))].SystemTime))
FieldsOf(data) ==
    {<<Unwrap(data[i].Name), Unwrap(data[i].text)>> :
        i \in {k \in DataIndices(data) : LastNamed(data, k)}}
Outcome(sys, data) ==
    IF HardIndices(sys) # {} THEN Err(HardError(sys[MinOf(HardIndices(sys))]))
    ELSE IF IdOf(sys) = None THEN Err(MissingFieldEventID)
    ELSE IF TimeOf(sys) = None THEN Err(MissingFieldTimeCreated)
    ELSE IF BadDataIndices(data) # {} THEN Err(DataError(data[MinOf(BadDataIndices(data))]))
    ELSE Ok([event_id |-> Unwrap(IdOf(sys)), time_created |-> Unwrap(TimeOf(sys)),
             event_data |-> FieldsOf(data)])

\* C9: with several System or several EventData children of the root, the scans
\* read the first of each in document order, and the result, record or error,
\* is the one these two sections determine: later sections of the same name do
\* not affect it.
C9_FirstSectionOnly ==
    /\ system_xml # 0 => system_xml = MinOf(Indices(xml.root, "System"))
    /\ event_data_xml # 0 => event_data_xml = MinOf(Indices(xml.root, "EventData"))
    /\ Done /\ BothSections =>
          result = Outcome(FirstSection("System"), FirstSection("EventData"))

\* C9 witness: the first System has no EventID, a second one holds a valid
\* EventID; the parse fails with MissingField("EventID").
C9_Witness ==
    /\ Done
    /\ BothSections
    /\ Cardinality(Indices(xml.root, "System")) >= 2
    /\ Indices(FirstSection("System"), "EventID") = {}
    /\ ValidIds(xml.root[MaxOf(Indices(xml.root, "System"))].children) # {}
    /\ Failed(MissingFieldEventID)

\* The defects of a parse in the order they are reported: the error of each
\* defect that is present, None for one that is absent.
Defects ==
    << IF ~xml.wf THEN Some(MalformedDocument) ELSE None,
       IF xml.wf /\ ~HasSection("System") THEN Some(MissingSectionSystem) ELSE None,
       IF xml.wf /\ ~HasSection("EventData") THEN Some(MissingSectionEventData) ELSE None,
       IF BothSections /\ HardIndices(FirstSection("System")) # {}
       THEN Some(HardError(FirstSection("System")[MinOf(HardIndices(FirstSection("System")))]))
       ELSE None,
       IF event_id_opt = None THEN Some(MissingFieldEventID) ELSE None,
       IF time_created_opt = None THEN Some(MissingFieldTimeCreated) ELSE None,
       IF BothSections /\ BadDataIndices(FirstSection("EventData")) # {}
       THEN Some(DataError(FirstSection("EventData")[MinOf(BadDataIndices(FirstSection("EventData")))]))
       ELSE None >>

Present == {k \in 1..Len(Defects) : Defects[k] # None}

\* C10: the error of a parse is that of the first defect present, in the order:
\* malformed document, missing System, missing EventData, first System child
\* without its text or attribute (also after a valid occurrence), identity
\* unset, timestamp unset, first Data error; the EventData children are examined
\* only with identity and timestamp both set.
C10_ErrorPrecedence ==
    /\ Done =>
          IF Present = {} THEN Returned
          ELSE Failed(Unwrap(Defects[MinOf(Present)]))
    /\ pc = "scan_data" \/ data_pos > 1 \/ event_data # {} =>
          IsSome(event_id_opt) /\ IsSome(time_created_opt)
    /\ Done /\ BothSections /\ HardIndices(FirstSection("System")) = {}
       /\ event_id_opt = None /\ time_created_opt = None =>
          Failed(MissingFieldEventID)

\* C10 witness: a valid EventID, then an EventID without text, no timestamp and a
\* Data child without Name: the error is that of the EventID without text.
C10_Witness ==
    /\ Done
    /\ BothSections
    /\ IsSome(event_id_opt)
    /\ time_created_opt = None
    /\ BadDataIndices(FirstSection("EventData")) # {}
    /\ Failed(MissingFieldEventIDText)

====
